---- MODULE Spec2Model ----
(***************************************************************************)
(* Model of the ngsxfem tutorial notebooks: the level-set geometry          *)
(* notebook (cut information, element / facet / dof marking), the unfitted  *)
(* FEM notebook (cut FE spaces) and the integration notebook (refinement    *)
(* sequences).  The notebooks are sequences of cells run in a kernel; the   *)
(* state is the kernel's namespace, one action per cell.                    *)
(***************************************************************************)
EXTENDS Integers, FiniteSets, Sequences, TLC

VARIABLES
    notebook,      \* the notebook the kernel runs
    mesh,          \* the background mesh (a simplicial triangulation)
    lsetp1,        \* P1 level set: vertex -> nodal value
    done,          \* the cells executed so far (names defined in the kernel)
    ci,            \* CutInfo(mesh, lsetp1): domain type -> set of elements
    ba_IF, ba_NEG, ba_POS,    \* element BitArrays of the geometry notebook
    ba_hasneg,     \* ba_NEG | ba_IF
    freedofs_fd,   \* freedofs of the fictitious domain marking (H1, order 1)
    hasneg, haspos,           \* element BitArrays of the unfitted FEM notebook
    relevantdofs,  \* CompoundBitArray over VhG = [Vh, Vh]
    freedofs,      \* VhG.FreeDofs() restricted to the relevant dofs
    call,          \* arguments of a library call on arbitrary BitArrays
    ba_facets,     \* result of GetFacetsWithNeighborTypes
    ba_dofs,       \* result of GetDofsOfElements
    pc,            \* position in the integration notebook
    meshgen,       \* the mesh object bound to "mesh" and its refinement level
    lset_approx,   \* mesh generation the GridFunction lset_approx lives on
    lset_p1,       \* mesh generation of lsetmeshadap.lset_p1
    deformation,   \* mesh generation the deformation was computed on
    deformed,      \* a deformation is set on the mesh
    refinements,   \* number of levels of the convergence loop
    reflevel,      \* loop variable of the convergence loop
    key,           \* position in [NEG, POS, IF]
    runs,          \* executions of the refine cell so far
    lastread,      \* the last use of a derived field: what was read, where
    integrals,     \* Integrate of 1 per domain type, element by element
    assembled,     \* what a.Assemble() summed up, integrator by integrator
    uh,            \* the component IfPos selects at each vertex
    x_vals,        \* the component the sampling loop selects at each vertex
    ba_extended_NEG,   \* the element BitArray being extended by neighbours
    steps,         \* extension steps applied so far
    errors_curved, errors_uncurved,   \* key -> list of errors, one per level
    eoc_curved, eoc_uncurved,         \* key -> list of convergence orders
    N,             \* number of frames of the deformation animation
    i_anim,        \* loop variable i of the animation
    scale          \* factor on deformation.vec, a fraction <<num, den>>

geomvars == <<ci, ba_IF, ba_NEG, ba_POS, ba_hasneg, freedofs_fd,
              hasneg, haspos, relevantdofs, freedofs>>
callvars == <<call, ba_facets, ba_dofs>>
refvars == <<pc, meshgen, lset_approx, lset_p1, deformation, deformed,
             refinements, reflevel, key, runs, lastread>>

solvars == <<integrals, assembled, uh, x_vals>>
extvars == <<ba_extended_NEG, steps>>
convvars == <<errors_curved, errors_uncurved, eoc_curved, eoc_uncurved,
              N, i_anim, scale>>

vars == <<notebook, mesh, lsetp1, done, geomvars, callvars, refvars,
          solvars, extvars, convvars>>

-----------------------------------------------------------------------------
(* Bounds *)

\* largest number of elements of a background mesh
MaxEl == 4

\* largest number of executions of the refine cell
MaxRuns == 2

\* largest number of levels of the convergence loop
MaxRefinements == 4

\* largest number of frames of the deformation animation
MaxN == 3

-----------------------------------------------------------------------------
(* Background meshes: triangle strips and closed fans around one vertex *)

Meshes ==
    {[kind |-> "strip", n |-> k] : k \in 1..MaxEl}
        \cup {[kind |-> "fan", n |-> k] : k \in 3..MaxEl}

Elements(m) == 1..m.n

Vertices(m) == IF m.kind = "strip" THEN 1..(m.n + 2) ELSE 0..m.n

\* the three vertices of element e
ElVertices(m, e) ==
    IF m.kind = "strip" THEN {e, e + 1, e + 2}
                        ELSE {0, e, (e % m.n) + 1}

\* facets of a 2D mesh are its edges
Facets(m) ==
    UNION {{{u, v} : u, v \in ElVertices(m, e)}
               \ {{w} : w \in ElVertices(m, e)} : e \in Elements(m)}

\* the one or two elements a facet belongs to
FacetElements(m, f) == {e \in Elements(m) : f \subseteq ElVertices(m, e)}

SetMin(S) == CHOOSE x \in S : \A y \in S : x <= y
SetMax(S) == CHOOSE x \in S : \A y \in S : x >= y

-----------------------------------------------------------------------------
(* Exact fractions <<numerator, denominator>>, denominator not 0 *)

FracMul(f, g) == <<f[1] * g[1], f[2] * g[2]>>
FracAdd(f, g) == <<f[1] * g[2] + g[1] * f[2], f[2] * g[2]>>
FracSub(f, g) == <<f[1] * g[2] - g[1] * f[2], f[2] * g[2]>>
FracEq(f, g) == f[1] * g[2] = g[1] * f[2]
FracPos(f) == f[1] * f[2] > 0
FracLeq(f, g) == ~FracPos(FracSub(f, g))

-----------------------------------------------------------------------------
(* Level set values and element marking *)

\* nodal values of the P1 level set (the marking reads only their signs)
LsetVals == {-1, 0, 1}

DomainTypes == {"NEG", "POS", "IF"}

\* a P1 function takes its extreme values on an element at the vertices
ElMin(m, l, e) == SetMin({l[v] : v \in ElVertices(m, e)})
ElMax(m, l, e) == SetMax({l[v] : v \in ElVertices(m, e)})

\* a plausible slip: zero counted to the negative / positive side
ElementsOfType_ZeroToSides(m, l, dt) ==
    CASE dt = "NEG" -> {e \in Elements(m) : ElMax(m, l, e) <= 0}
      [] dt = "POS" -> {e \in Elements(m) : ElMin(m, l, e) >= 0}
      [] dt = "IF"  -> {e \in Elements(m) :
                            ElMin(m, l, e) < 0 /\ ElMax(m, l, e) > 0}

\* another: interface elements need a strict sign change
ElementsOfType_StrictCut(m, l, dt) ==
    CASE dt = "NEG" -> {e \in Elements(m) : ElMax(m, l, e) < 0}
      [] dt = "POS" -> {e \in Elements(m) : ElMin(m, l, e) > 0}
      [] dt = "IF"  -> {e \in Elements(m) :
                            ElMin(m, l, e) < 0 /\ ElMax(m, l, e) > 0}

\* NEG : phi < 0 everywhere on the element
\* POS : phi > 0 everywhere on the element
\* IF  : phi = 0 somewhere on the element
ElementsOfType(m, l, dt) ==
    CASE dt = "NEG" -> {e \in Elements(m) : ElMax(m, l, e) < 0}
      [] dt = "POS" -> {e \in Elements(m) : ElMin(m, l, e) > 0}
      [] dt = "IF"  -> {e \in Elements(m) :
                            ElMin(m, l, e) <= 0 /\ ElMax(m, l, e) >= 0}

\* ci = CutInfo(mesh, lsetp1)
CutInfo(m, l) == [dt \in DomainTypes |-> ElementsOfType(m, l, dt)]

\* ci.GetElementsOfType(dt)
GetElementsOfType(c, dt) == c[dt]

NoCutInfo == [dt \in DomainTypes |-> {}]

-----------------------------------------------------------------------------
(* Integrating 1 over the sub-domains of the P1 level set, element by      *)
(* element, as a fraction of the element's measure                         *)

\* where the P1 function with end values a and b vanishes on an edge, as a
\* fraction of the edge from the end with value a
CutPosition(a, b) == <<a, a - b>>

\* the corner cut off at vertex v by the zero level
CornerFraction(m, l, e, v) ==
    LET others == ElVertices(m, e) \ {v}
        t == CutPosition(l[v], l[SetMin(others)])
        s == CutPosition(l[v], l[SetMax(others)])
    IN  FracMul(t, s)

\* a slip: one of the two triangles of the quadrilateral is lost
QuadFraction_OneTriangle(m, l, e, v) ==
    LET others == ElVertices(m, e) \ {v}
        t == CutPosition(l[v], l[SetMin(others)])
    IN  FracSub(<<1, 1>>, t)

\* the quadrilateral left when the corner at v is cut off, as two triangles
QuadFraction(m, l, e, v) ==
    LET others == ElVertices(m, e) \ {v}
        t == CutPosition(l[v], l[SetMin(others)])
        s == CutPosition(l[v], l[SetMax(others)])
    IN  FracAdd(FracSub(<<1, 1>>, t), FracMul(t, FracSub(<<1, 1>>, s)))

\* a slip: the sub-domains taken closed, the zero level counted to both
SubdomainFraction_Closed(m, l, e, dt) ==
    LET inside(v) == IF dt = "NEG" THEN l[v] <= 0 ELSE l[v] >= 0
        beyond(v) == IF dt = "NEG" THEN l[v] > 0 ELSE l[v] < 0
        ins == {v \in ElVertices(m, e) : inside(v)}
        bey == {v \in ElVertices(m, e) : beyond(v)}
    IN  IF ins = {} THEN <<0, 1>>
        ELSE IF bey = {} THEN <<1, 1>>
        ELSE IF Cardinality(ins) = 1
            THEN CornerFraction(m, l, e, CHOOSE v \in ins : TRUE)
            ELSE QuadFraction(m, l, e, CHOOSE v \in bey : TRUE)

\* NEG : Omega_-^lin = {phi^lin < 0},  POS : Omega_+^lin = {phi^lin > 0}
SubdomainFraction(m, l, e, dt) ==
    LET inside(v) == IF dt = "NEG" THEN l[v] < 0 ELSE l[v] > 0
        beyond(v) == IF dt = "NEG" THEN l[v] > 0 ELSE l[v] < 0
        ins == {v \in ElVertices(m, e) : inside(v)}
        bey == {v \in ElVertices(m, e) : beyond(v)}
    IN  IF ins = {} THEN <<0, 1>>
        ELSE IF bey = {} THEN <<1, 1>>
        ELSE IF Cardinality(ins) = 1
            THEN CornerFraction(m, l, e, CHOOSE v \in ins : TRUE)
            ELSE QuadFraction(m, l, e, CHOOSE v \in bey : TRUE)

\* Integrate(levelset_domain = {"levelset" : l, "domain_type" : dt}, cf=1,
\*           mesh=m), element by element
Integrate(m, l, dt) ==
    [e \in Elements(m) |-> SubdomainFraction(m, l, e, dt)]

\* the points of the boundary of element e where the P1 level set vanishes:
\* vertices with value 0 and the cuts of edges with a strict sign change
ZeroPoints(m, l, e) ==
    {<<v, v>> : v \in {w \in ElVertices(m, e) : l[w] = 0}}
        \cup {p \in ElVertices(m, e) \X ElVertices(m, e) :
                  p[1] < p[2] /\ l[p[1]] * l[p[2]] < 0}

\* IF : Gamma^lin = {phi^lin = 0} has positive length on element e
InterfaceOnElement(m, l, e) == Cardinality(ZeroPoints(m, l, e)) >= 2

\* what an integrator on the domain type dt adds up on element e: the measure
\* of its region of integration there
ElementContribution(m, l, e, dt) ==
    IF dt = "IF" THEN InterfaceOnElement(m, l, e)
                 ELSE SubdomainFraction(m, l, e, dt)

\* integrator.SetDefinedOnElements(ba); Assemble(): the elements visited
AssembleOn(m, l, ba, dt) == [e \in ba |-> ElementContribution(m, l, e, dt)]

\* referencevals = { POS : 9-pi, NEG : pi, IF : 2*pi }, as rat + pi * pi
referencevals ==
    [dt \in DomainTypes |->
        CASE dt = "POS" -> [rat |-> 9, pi |-> -1]
          [] dt = "NEG" -> [rat |-> 0, pi |-> 1]
          [] dt = "IF"  -> [rat |-> 0, pi |-> 2]]

\* square.AddRectangle([-1.5,-1.5],[1.5,1.5]): the area of the square
SquareArea ==
    LET side == FracSub(<<3, 2>>, <<-3, 2>>)
    IN  FracMul(side, side)

-----------------------------------------------------------------------------
(* Marking facets *)

\* use_and = True by mistake also where "or" was asked for
GetFacetsWithNeighborTypes_AlwaysAnd(m, a, b, bnd_val_a, bnd_val_b, use_and) ==
    {f \in Facets(m) :
        LET els  == FacetElements(m, f)
            left == SetMin(els)
            right == SetMax(els)
            two  == Cardinality(els) = 2
            A1 == left \in a
            A2 == left \in b
            B1 == IF two THEN right \in a ELSE bnd_val_a
            B2 == IF two THEN right \in b ELSE bnd_val_b
        IN  (A1 /\ B2) \/ (B1 /\ A2)}

\* the two neighbours tested against the same BitArray pairing
GetFacetsWithNeighborTypes_OneSided(m, a, b, bnd_val_a, bnd_val_b, use_and) ==
    {f \in Facets(m) :
        LET els  == FacetElements(m, f)
            left == SetMin(els)
            right == SetMax(els)
            two  == Cardinality(els) = 2
            A1 == left \in a
            B2 == IF two THEN right \in b ELSE bnd_val_b
        IN  IF use_and THEN A1 /\ B2 ELSE A1 \/ B2}

\* bnd_val_a used for both BitArrays at a boundary facet
GetFacetsWithNeighborTypes_OneBnd(m, a, b, bnd_val_a, bnd_val_b, use_and) ==
    {f \in Facets(m) :
        LET els  == FacetElements(m, f)
            left == SetMin(els)
            right == SetMax(els)
            two  == Cardinality(els) = 2
            A1 == left \in a
            A2 == left \in b
            B1 == IF two THEN right \in a ELSE bnd_val_a
            B2 == IF two THEN right \in b ELSE bnd_val_a
        IN  IF use_and THEN (A1 /\ B2) \/ (B1 /\ A2)
                       ELSE (A1 \/ B2) \/ (B1 \/ A2)}

\* A1, A2: the values of the BitArrays a, b for the left neighbour,
\* B1, B2: their values for the right neighbour (bnd_val_a, bnd_val_b if
\* there is only one neighbour).
\*   use_and = True : (A1 and B2) or (B1 and A2)
\*   use_and = False: (A1 or B2) or (B1 or A2)
GetFacetsWithNeighborTypes(m, a, b, bnd_val_a, bnd_val_b, use_and) ==
    {f \in Facets(m) :
        LET els  == FacetElements(m, f)
            left == SetMin(els)
            right == SetMax(els)
            two  == Cardinality(els) = 2
            A1 == left \in a
            A2 == left \in b
            B1 == IF two THEN right \in a ELSE bnd_val_a
            B2 == IF two THEN right \in b ELSE bnd_val_b
        IN  IF use_and THEN (A1 /\ B2) \/ (B1 /\ A2)
                       ELSE (A1 \/ B2) \/ (B1 \/ A2)}

-----------------------------------------------------------------------------
(* Finite element spaces and dof marking *)

\* all pairs <<u, v>> of vertices in lexicographic order
VertexPairs(m) ==
    LET lo == SetMin(Vertices(m))
        nv == Cardinality(Vertices(m))
    IN  [k \in 1..(nv * nv) |-> <<lo + ((k - 1) \div nv), lo + ((k - 1) % nv)>>]

\* the edges of the mesh in the order of their numbers
EdgeSeq(m) ==
    LET F == Facets(m)
        IsEdge(p) == p[1] < p[2] /\ {p[1], p[2]} \in F
        sel == SelectSeq(VertexPairs(m), IsEdge)
    IN  [k \in 1..Len(sel) |-> {sel[k][1], sel[k][2]}]

\* vertex dofs are numbered first, then the edge dofs
SortedEntities(m, p) ==
    LET lo == SetMin(Vertices(m))
        nv == Cardinality(Vertices(m))
    IN  [i \in 1..nv |-> {lo + i - 1}] \o (IF p >= 2 THEN EdgeSeq(m) ELSE <<>>)

\* H1(mesh, order = p, dirichlet = ...): dirichlet is TRUE when the list
\* names the boundary condition number of the whole boundary; the space
\* holds its dof table
H1(m, p, dir) ==
    [mesh |-> m, order |-> p, dirichlet |-> dir,
     dofs |-> SortedEntities(m, p)]

\* dof number i (from 1) belongs to the entity DofList(sp)[i]
DofList(sp) == sp.dofs

ndof(sp) == Len(DofList(sp))

\* the dofs of element e
GetDofNrs(sp, e) ==
    {i \in 1..ndof(sp) : DofList(sp)[i] \subseteq ElVertices(sp.mesh, e)}

\* the elements on which the basis function of dof i does not vanish
DofSupport(sp, i) ==
    {e \in Elements(sp.mesh) : DofList(sp)[i] \subseteq ElVertices(sp.mesh, e)}

\* a dof is constrained when its entity lies on the Dirichlet boundary
BoundaryFacets(m) ==
    {f \in Facets(m) : Cardinality(FacetElements(m, f)) = 1}

IsDirichletDof(sp, i) ==
    /\ sp.dirichlet
    /\ \E f \in BoundaryFacets(sp.mesh) : DofList(sp)[i] \subseteq f

\* space.FreeDofs()
FreeDofs(sp) ==
    LET bnd == BoundaryFacets(sp.mesh)
    IN  [i \in 1..ndof(sp) |->
            ~(sp.dirichlet /\ \E f \in bnd : DofList(sp)[i] \subseteq f)]

RECURSIVE SetDofsOfElements(_, _, _)
SetDofsOfElements(sp, S, ba) ==
    IF S = {} THEN ba
    ELSE LET e  == SetMin(S)
             dn == GetDofNrs(sp, e)
         IN  SetDofsOfElements(sp, S \ {e},
                 [i \in 1..Len(ba) |-> ba[i] \/ i \in dn])

\* a slip: only dofs whose whole support is marked
GetDofsOfElements_Interior(sp, S) ==
    [i \in 1..ndof(sp) |-> DofSupport(sp, i) \subseteq S]

\* GetDofsOfElements(space, S): the dofs of the elements marked in S
GetDofsOfElements(sp, S) ==
    SetDofsOfElements(sp, S, [i \in 1..ndof(sp) |-> FALSE])

\* CompoundBitArray([b0, b1]): the component BitArrays one after the other
CompoundBitArray(list) == list[1] \o list[2]

\* FESpace([Vh, Vh]).FreeDofs()
CompoundFreeDofs(sp) == FreeDofs(sp) \o FreeDofs(sp)

BitAnd(x, y) == [i \in 1..Len(x) |-> x[i] /\ y[i]]
BitOr(x, y) == [i \in 1..Len(x) |-> x[i] \/ y[i]]

\* hasneg = BitArray(ci.GetElementsOfType(NEG)); hasneg |= ...(IF)
HasNeg(c) == GetElementsOfType(c, "NEG") \cup GetElementsOfType(c, "IF")

\* haspos = BitArray(ci.GetElementsOfType(POS)); haspos |= ...(IF)
HasPos(c) == GetElementsOfType(c, "POS") \cup GetElementsOfType(c, "IF")

\* a slip: the two element sets passed in the wrong order
RelevantDofs_Swapped(sp, hn, hp) ==
    CompoundBitArray(<<GetDofsOfElements(sp, hp), GetDofsOfElements(sp, hn)>>)

\* relevantdofs = CompoundBitArray([GetDofsOfElements(Vh,hasneg),
\*                                  GetDofsOfElements(Vh,haspos)])
RelevantDofs(sp, hn, hp) ==
    CompoundBitArray(<<GetDofsOfElements(sp, hn), GetDofsOfElements(sp, hp)>>)

\* a slip: |= instead of &=
RestrictFreeDofs_Or(free, mask) == BitOr(free, mask)

\* freedofs &= mask
RestrictFreeDofs(free, mask) == BitAnd(free, mask)

-----------------------------------------------------------------------------
(* The kernel after the cells that build the mesh and interpolate the      *)
(* level set: any mesh, any nodal values.                                  *)

NoCall == [a |-> {}, b |-> {}, bnd_val_a |-> FALSE, bnd_val_b |-> FALSE,
           use_and |-> TRUE, order |-> 1, dirichlet |-> FALSE]

GeomInit ==
    /\ ci = NoCutInfo
    /\ ba_IF = {} /\ ba_NEG = {} /\ ba_POS = {} /\ ba_hasneg = {}
    /\ freedofs_fd = <<>>
    /\ hasneg = {} /\ haspos = {}
    /\ relevantdofs = <<>> /\ freedofs = <<>>

CallInit == call = NoCall /\ ba_facets = {} /\ ba_dofs = <<>>

\* a mesh object and its refinement level; object 0: no mesh yet
NoGen == [object |-> 0, level |-> 0]

RefInit ==
    /\ pc = "idle"
    /\ meshgen = NoGen
    /\ lset_approx = NoGen /\ lset_p1 = NoGen /\ deformation = NoGen
    /\ deformed = FALSE
    /\ refinements = 0 /\ reflevel = 0 /\ key = 0 /\ runs = 0
    /\ lastread = [op |-> "none", field |-> NoGen, mesh |-> NoGen]

\* nothing integrated, assembled or evaluated yet
SolInit ==
    /\ integrals = [dt \in DomainTypes |-> <<>>]
    /\ assembled = <<>>
    /\ uh = <<>>
    /\ x_vals = <<>>

ExtInit == ba_extended_NEG = {} /\ steps = 0

\* the keys [NEG, POS, IF] of the convergence loop
NumKeys == 3

NoLists == [k \in 1..NumKeys |-> <<>>]

ConvInit ==
    /\ errors_curved = NoLists /\ errors_uncurved = NoLists
    /\ eoc_curved = NoLists /\ eoc_uncurved = NoLists
    /\ N = 0 /\ i_anim = 0
    /\ scale = <<1, 1>>

Init ==
    /\ notebook \in {"geometry", "unfittedFEM"}
    /\ mesh \in Meshes
    /\ lsetp1 \in [Vertices(mesh) -> LsetVals]
    /\ done = {}
    /\ GeomInit
    /\ CallInit
    /\ RefInit
    /\ SolInit
    /\ ExtInit
    /\ ConvInit

(* Cells of the geometry notebook *)

\* ci = CutInfo(mesh, lsetp1)
CellCutInfo ==
    /\ notebook = "geometry"
    /\ ci' = CutInfo(mesh, lsetp1)
    /\ done' = done \cup {"ci"}
    /\ UNCHANGED <<notebook, mesh, lsetp1, ba_IF, ba_NEG, ba_POS, ba_hasneg,
                   freedofs_fd, hasneg, haspos, relevantdofs, freedofs,
                   callvars, refvars, solvars, extvars, convvars>>

\* ba_IF = ci.GetElementsOfType(IF)
CellIF ==
    /\ notebook = "geometry"
    /\ "ci" \in done
    /\ ba_IF' = GetElementsOfType(ci, "IF")
    /\ done' = done \cup {"ba_IF"}
    /\ UNCHANGED <<notebook, mesh, lsetp1, ci, ba_NEG, ba_POS, ba_hasneg,
                   freedofs_fd, hasneg, haspos, relevantdofs, freedofs,
                   callvars, refvars, solvars, extvars, convvars>>

\* ba_NEG = ci.GetElementsOfType(NEG)
CellNEG ==
    /\ notebook = "geometry"
    /\ "ci" \in done
    /\ ba_NEG' = GetElementsOfType(ci, "NEG")
    /\ done' = done \cup {"ba_NEG"}
    /\ UNCHANGED <<notebook, mesh, lsetp1, ci, ba_IF, ba_POS, ba_hasneg,
                   freedofs_fd, hasneg, haspos, relevantdofs, freedofs,
                   callvars, refvars, solvars, extvars, convvars>>

\* ba_POS = ci.GetElementsOfType(POS)
CellPOS ==
    /\ notebook = "geometry"
    /\ "ci" \in done
    /\ ba_POS' = GetElementsOfType(ci, "POS")
    /\ done' = done \cup {"ba_POS"}
    /\ UNCHANGED <<notebook, mesh, lsetp1, ci, ba_IF, ba_NEG, ba_hasneg,
                   freedofs_fd, hasneg, haspos, relevantdofs, freedofs,
                   callvars, refvars, solvars, extvars, convvars>>

\* ba_hasneg = BitArray(ba_NEG); ba_hasneg |= ba_IF
CellHasNeg ==
    /\ notebook = "geometry"
    /\ {"ba_NEG", "ba_IF"} \subseteq done
    /\ ba_hasneg' = ba_NEG \cup ba_IF
    /\ done' = done \cup {"ba_hasneg"}
    /\ UNCHANGED <<notebook, mesh, lsetp1, ci, ba_IF, ba_NEG, ba_POS,
                   freedofs_fd, hasneg, haspos, relevantdofs, freedofs,
                   callvars, refvars, solvars, extvars, convvars>>

\* VhG = H1(mesh, order=1, dirichlet=[]); freedofs = VhG.FreeDofs()
\* freedofs &= GetDofsOfElements(VhG, ba_hasneg)
CellMarkDofs ==
    /\ notebook = "geometry"
    /\ "ba_hasneg" \in done
    /\ "freedofs_fd" \notin done   \* a second run changes nothing
    /\ LET VhG == H1(mesh, 1, FALSE)
       IN  freedofs_fd' = RestrictFreeDofs(FreeDofs(VhG),
                                           GetDofsOfElements(VhG, ba_hasneg))
    /\ done' = done \cup {"freedofs_fd"}
    /\ UNCHANGED <<notebook, mesh, lsetp1, ci, ba_IF, ba_NEG, ba_POS, ba_hasneg,
                   hasneg, haspos, relevantdofs, freedofs, callvars,
                   refvars, solvars, extvars, convvars>>

\* Example 1: ba_facets = GetFacetsWithNeighborTypes(mesh, a=ba_NEG, b=ba_IF,
\*                bnd_val_a=False, bnd_val_b=False)      (use_and = True)
CellExample1 ==
    /\ notebook = "geometry"
    /\ {"ba_NEG", "ba_IF"} \subseteq done
    /\ ba_facets' = GetFacetsWithNeighborTypes(mesh, ba_NEG, ba_IF,
                                               FALSE, FALSE, TRUE)
    /\ done' = done \cup {"ba_facets"}
    /\ UNCHANGED <<notebook, mesh, lsetp1, geomvars, call, ba_dofs, refvars,
                   solvars, extvars, convvars>>

(* The cut FE spaces cell of the unfitted FEM notebook *)

\* Vh = H1(mesh, order=2, dirichlet=[1,2,3,4])
Vh == H1(mesh, 2, TRUE)

CellCutFESpaces ==
    /\ notebook = "unfittedFEM"
    /\ "freedofs" \notin done   \* a second run changes nothing
    /\ LET sp == Vh
           c  == CutInfo(mesh, lsetp1)
           hn == HasNeg(c)
           hp == HasPos(c)
           rd == RelevantDofs(sp, hn, hp)
       IN  /\ hasneg' = hn
           /\ haspos' = hp
           /\ relevantdofs' = rd
           /\ freedofs' = RestrictFreeDofs(CompoundFreeDofs(sp), rd)
    /\ done' = done \cup {"freedofs"}
    /\ UNCHANGED <<notebook, mesh, lsetp1, ci, ba_IF, ba_NEG, ba_POS, ba_hasneg,
                   freedofs_fd, callvars, refvars, solvars, extvars, convvars>>

\* bfi_neg.SetDefinedOnElements(hasneg); lfi_neg.SetDefinedOnElements(hasneg)
\* bfi_pos.SetDefinedOnElements(haspos); lfi_pos.SetDefinedOnElements(haspos)
\* bfi_if.SetDefinedOnElements(ci.GetElementsOfType(IF))
\* a.Assemble(); f.Assemble()
CellAssemble ==
    /\ notebook = "unfittedFEM"
    /\ "freedofs" \in done
    /\ assembled' =
           [neg |-> AssembleOn(mesh, lsetp1, hasneg, "NEG"),
            pos |-> AssembleOn(mesh, lsetp1, haspos, "POS"),
            if  |-> AssembleOn(mesh, lsetp1,
                        GetElementsOfType(CutInfo(mesh, lsetp1), "IF"), "IF")]
    /\ done' = done \cup {"assembled"}
    /\ UNCHANGED <<notebook, mesh, lsetp1, geomvars, callvars, refvars,
                   integrals, uh, x_vals, extvars, convvars>>

\* IfPos(c, a, b): a where c is positive, b elsewhere
IfPos(c, a, b) == IF c > 0 THEN a ELSE b

\* uh = IfPos(lsetp1, gfu.components[1], gfu.components[0]), at the vertices:
\* the component of gfu whose value uh takes there
CellUh ==
    /\ notebook = "unfittedFEM"
    /\ "freedofs" \in done
    /\ uh' = [v \in Vertices(mesh) |-> IfPos(lsetp1[v], 1, 0)]
    /\ done' = done \cup {"uh"}
    /\ UNCHANGED <<notebook, mesh, lsetp1, geomvars, callvars, refvars,
                   integrals, assembled, x_vals, extvars, convvars>>

\* if (lsetp1(coord_x,y) < 0): x_vals[i] = gfu.components[0](coord_x,y)
\* else:                       x_vals[i] = gfu.components[1](coord_x,y)
CellSample ==
    /\ notebook = "unfittedFEM"
    /\ "freedofs" \in done
    /\ x_vals' = [v \in Vertices(mesh) |-> IF lsetp1[v] < 0 THEN 0 ELSE 1]
    /\ done' = done \cup {"x_vals"}
    /\ UNCHANGED <<notebook, mesh, lsetp1, geomvars, callvars, refvars,
                   integrals, assembled, uh, extvars, convvars>>

\* a kernel runs the cells of its notebook
Next ==
    \/ CellCutInfo
    \/ CellIF
    \/ CellNEG
    \/ CellPOS
    \/ CellHasNeg
    \/ CellMarkDofs
    \/ CellExample1
    \/ CellCutFESpaces

Spec == Init /\ [][Next]_vars

\* the unfitted FEM notebook with its assembly and solution cells
InitSolve == Init /\ notebook = "unfittedFEM"

NextSolve ==
    \/ CellCutFESpaces
    \/ CellAssemble
    \/ CellUh
    \/ CellSample

SpecSolve == InitSolve /\ [][NextSolve]_vars

-----------------------------------------------------------------------------
(* The marking functions on arbitrary BitArrays *)

InitCalls ==
    /\ notebook = "geometry"
    /\ mesh \in Meshes
    /\ lsetp1 = [v \in Vertices(mesh) |-> 1]
    /\ done = {}
    /\ GeomInit
    /\ RefInit
    /\ call \in [a : SUBSET Elements(mesh), b : SUBSET Elements(mesh),
                 bnd_val_a : BOOLEAN, bnd_val_b : BOOLEAN,
                 use_and : BOOLEAN, order : {1, 2}, dirichlet : {FALSE}]
    /\ ba_facets = {}
    /\ ba_dofs = <<>>
    /\ SolInit
    /\ ExtInit
    /\ ConvInit

\* ba_facets = GetFacetsWithNeighborTypes(mesh, a=..., b=..., bnd_val_a=...,
\*                                        bnd_val_b=..., use_and=...)
CallGetFacetsWithNeighborTypes ==
    /\ ba_facets' = GetFacetsWithNeighborTypes(mesh, call.a, call.b,
                        call.bnd_val_a, call.bnd_val_b, call.use_and)
    /\ done' = done \cup {"ba_facets"}
    /\ UNCHANGED <<notebook, mesh, lsetp1, geomvars, call, ba_dofs, refvars, solvars, extvars, convvars>>

\* GetDofsOfElements(space, a)
CallGetDofsOfElements ==
    /\ ba_dofs' = GetDofsOfElements(H1(mesh, call.order, call.dirichlet),
                                    call.a)
    /\ done' = done \cup {"ba_dofs"}
    /\ UNCHANGED <<notebook, mesh, lsetp1, geomvars, call, ba_facets, refvars, solvars, extvars, convvars>>

NextCalls == CallGetFacetsWithNeighborTypes \/ CallGetDofsOfElements

SpecCalls == InitCalls /\ [][NextCalls]_vars

-----------------------------------------------------------------------------
(* From facets to elements, and the extension of a set of elements by its   *)
(* direct neighbours                                                        *)

\* a slip: an element is marked only if all its facets are marked
GetElementsWithNeighborFacets_AllFacets(m, fs) ==
    {e \in Elements(m) :
        \A f \in Facets(m) : f \subseteq ElVertices(m, e) => f \in fs}

\* GetElementsWithNeighborFacets(mesh, ba_facets): the elements with a marked
\* facet
GetElementsWithNeighborFacets(m, fs) ==
    {e \in Elements(m) : \E f \in fs : f \subseteq ElVertices(m, e)}

\* ba_facets_NEG = GetFacetsWithNeighborTypes(mesh, a=S, b=S, bnd_val_a=False,
\*                                            bnd_val_b=False, use_and=False)
\* ba_extended_NEG = GetElementsWithNeighborFacets(mesh, ba_facets_NEG)
Extend(m, S) ==
    GetElementsWithNeighborFacets(m,
        GetFacetsWithNeighborTypes(m, S, S, FALSE, FALSE, FALSE))

\* extension cells run at most (a fixed point is reached before)
MaxSteps == MaxEl + 2

InitExtend ==
    /\ notebook = "geometry"
    /\ mesh \in Meshes
    /\ lsetp1 = [v \in Vertices(mesh) |-> 1]
    /\ done = {}
    /\ GeomInit
    /\ RefInit
    /\ \E S \in SUBSET Elements(mesh) :
           call = [a |-> S, b |-> S, bnd_val_a |-> FALSE, bnd_val_b |-> FALSE,
                   use_and |-> FALSE, order |-> 1, dirichlet |-> FALSE]
    /\ ba_facets = {}
    /\ ba_dofs = <<>>
    /\ SolInit
    /\ ExtInit
    /\ ConvInit

\* Example 2, from a set S of elements in the place of ba_NEG
CallExample2 ==
    /\ steps = 0
    /\ ba_facets' = GetFacetsWithNeighborTypes(mesh, call.a, call.b,
                        call.bnd_val_a, call.bnd_val_b, call.use_and)
    /\ ba_extended_NEG' = Extend(mesh, call.a)
    /\ steps' = 1
    /\ UNCHANGED <<notebook, mesh, lsetp1, done, geomvars, call, ba_dofs,
                   refvars, solvars, convvars>>

\* the cell that extends ba_extended_NEG by its direct neighbours, run again
\* and again
CallExtend ==
    /\ steps >= 1
    /\ steps < MaxSteps
    /\ ba_facets' = GetFacetsWithNeighborTypes(mesh, ba_extended_NEG,
                        ba_extended_NEG, FALSE, FALSE, FALSE)
    /\ ba_extended_NEG' = Extend(mesh, ba_extended_NEG)
    /\ steps' = steps + 1
    /\ UNCHANGED <<notebook, mesh, lsetp1, done, geomvars, call, ba_dofs,
                   refvars, solvars, convvars>>

NextExtend == CallExample2 \/ CallExtend

SpecExtend == InitExtend /\ [][NextExtend]_vars

-----------------------------------------------------------------------------
(* Integrate on an arbitrary mesh and P1 level set *)

InitIntegrate ==
    /\ notebook = "intlset"
    /\ mesh \in Meshes
    /\ lsetp1 \in [Vertices(mesh) -> LsetVals]
    /\ done = {}
    /\ GeomInit
    /\ CallInit
    /\ RefInit
    /\ SolInit
    /\ ExtInit
    /\ ConvInit

\* Integrate(levelset_domain = {"levelset" : lsetp1, "domain_type" : NEG},
\*           cf=f, mesh=mesh, order=order)
IntegrateNEG ==
    /\ integrals' = [integrals EXCEPT !["NEG"] = Integrate(mesh, lsetp1, "NEG")]
    /\ done' = done \cup {"NEG"}
    /\ UNCHANGED <<notebook, mesh, lsetp1, geomvars, callvars, refvars,
                   assembled, uh, x_vals, extvars, convvars>>

\* the same with "domain_type" : POS
IntegratePOS ==
    /\ integrals' = [integrals EXCEPT !["POS"] = Integrate(mesh, lsetp1, "POS")]
    /\ done' = done \cup {"POS"}
    /\ UNCHANGED <<notebook, mesh, lsetp1, geomvars, callvars, refvars,
                   assembled, uh, x_vals, extvars, convvars>>

NextIntegrate == IntegrateNEG \/ IntegratePOS

SpecIntegrate == InitIntegrate /\ [][NextIntegrate]_vars

-----------------------------------------------------------------------------
(* The integration notebook: the refine cell and the convergence loop.     *)
(* A derived field is known by the mesh generation it was computed on.     *)

InitRefine ==
    /\ notebook = "intlset"
    /\ mesh = [kind |-> "strip", n |-> 1]
    /\ lsetp1 = [v \in Vertices(mesh) |-> 1]
    /\ done = {}
    /\ GeomInit
    /\ CallInit
    /\ pc = "GenerateMesh"
    /\ meshgen = NoGen
    /\ lset_approx = NoGen /\ lset_p1 = NoGen /\ deformation = NoGen
    /\ deformed = FALSE
    /\ refinements \in 1..MaxRefinements
    /\ reflevel = 0 /\ key = 0 /\ runs = 0
    /\ lastread = [op |-> "none", field |-> NoGen, mesh |-> NoGen]
    /\ SolInit
    /\ ExtInit
    /\ ConvInit

\* mesh.Refine()
Refine(g) == [g EXCEPT !.level = @ + 1]

\* a use of the field f on the current mesh
Read(what, f) == [op |-> what, field |-> f, mesh |-> meshgen]

\* a slip: the deformation is left on the mesh
UnsetDeformation_Missing(d) == d

\* mesh.UnsetDeformation(): no deformation is set afterwards
UnsetDeformation(d) == FALSE

\* lst[lo:] of a Python list
PySliceFrom(lst, lo) == SubSeq(lst, lo + 1, Len(lst))

\* lst[0:-1] of a Python list
PyAllButLast(lst) == SubSeq(lst, 1, Len(lst) - 1)

\* list(zip(s, t))
Zip(s, t) ==
    [j \in 1..(IF Len(s) < Len(t) THEN Len(s) ELSE Len(t)) |-> <<s[j], t[j]>>]

\* [log(a/b)/log(2) for (a,b) in zip(errors[0:-1], errors[1:])]
EocList(errors) == Zip(PyAllButLast(errors), PySliceFrom(errors, 1))

\* a slip: CalcDeformation left out of the loop body
KeyLoopStart_NoCalcDeformation == "L_IntegrateUncurved"

\* the first statement of the body of "for key in [NEG,POS,IF]"
KeyLoopStart == "L_CalcDeformation"

\* mesh = Mesh (square.GenerateMesh(maxh=0.8, quad_dominated=False))
GenerateMesh ==
    /\ pc = "GenerateMesh"
    /\ meshgen' = [object |-> 1, level |-> 0]
    /\ pc' = "InterpolateToP1"
    /\ UNCHANGED <<notebook, mesh, lsetp1, done, geomvars, callvars, solvars, extvars, convvars,
                   lset_approx,
                   lset_p1, deformation, deformed, refinements, reflevel,
                   key, runs, lastread>>

\* V = H1(mesh,order=1); lset_approx = GridFunction(V)
\* InterpolateToP1(levelset,lset_approx)
CellInterpolateToP1 ==
    /\ pc = "InterpolateToP1"
    /\ lset_approx' = meshgen
    /\ pc' = "Integrate"
    /\ UNCHANGED <<notebook, mesh, lsetp1, done, geomvars, callvars, solvars, extvars, convvars, meshgen,
                   lset_p1, deformation, deformed, refinements, reflevel,
                   key, runs, lastread>>

\* integral = Integrate(levelset_domain = {"levelset" : lset_approx, ...})
CellIntegrate ==
    /\ pc = "Integrate"
    /\ lastread' = Read("Integrate", lset_approx)
    /\ pc' = "RefineCell"
    /\ UNCHANGED <<notebook, mesh, lsetp1, done, geomvars, callvars, solvars, extvars, convvars, meshgen,
                   lset_approx, lset_p1, deformation, deformed, refinements,
                   reflevel, key, runs>>

(* The refine cell, statement by statement; it may be run again and again *)

\* RefineAtLevelSet(gf=lset_approx)
R_RefineAtLevelSet ==
    /\ pc = "RefineCell"
    /\ runs < MaxRuns
    /\ lastread' = Read("RefineAtLevelSet", lset_approx)
    /\ pc' = "R_Refine"
    /\ UNCHANGED <<notebook, mesh, lsetp1, done, geomvars, callvars, solvars, extvars, convvars, meshgen,
                   lset_approx, lset_p1, deformation, deformed, refinements,
                   reflevel, key, runs>>

\* mesh.Refine()
R_Refine ==
    /\ pc = "R_Refine"
    /\ meshgen' = Refine(meshgen)
    /\ pc' = "R_InterpolateToP1"
    /\ UNCHANGED <<notebook, mesh, lsetp1, done, geomvars, callvars, solvars, extvars, convvars,
                   lset_approx,
                   lset_p1, deformation, deformed, refinements, reflevel,
                   key, runs, lastread>>

\* V = H1(mesh,order=1); lset_approx = GridFunction(V)
\* InterpolateToP1(levelset,lset_approx)
R_InterpolateToP1 ==
    /\ pc = "R_InterpolateToP1"
    /\ lset_approx' = meshgen
    /\ pc' = "R_Integrate"
    /\ UNCHANGED <<notebook, mesh, lsetp1, done, geomvars, callvars, solvars, extvars, convvars, meshgen,
                   lset_p1, deformation, deformed, refinements, reflevel,
                   key, runs, lastread>>

\* integral = Integrate(levelset_domain = {"levelset" : lset_approx, ...})
R_Integrate ==
    /\ pc = "R_Integrate"
    /\ lastread' = Read("Integrate", lset_approx)
    /\ runs' = runs + 1
    /\ pc' = "RefineCell"
    /\ UNCHANGED <<notebook, mesh, lsetp1, done, geomvars, callvars, solvars, extvars, convvars, meshgen,
                   lset_approx, lset_p1, deformation, deformed, refinements,
                   reflevel, key>>

\* lsetmeshadap = LevelSetMeshAdaptation(mesh, order=2)
\* deformation = lsetmeshadap.CalcDeformation(levelset)
CellLevelSetMeshAdaptation ==
    /\ pc = "RefineCell"
    /\ lset_p1' = meshgen
    /\ deformation' = meshgen
    /\ pc' = "AnimationCell"
    /\ UNCHANGED <<notebook, mesh, lsetp1, done, geomvars, callvars, solvars, extvars, convvars, meshgen,
                   lset_approx, deformed, refinements, reflevel, key, runs,
                   lastread>>

(* The animation of the deformation, statement by statement *)

\* N=100000; deformation.vec[:] *= 1/N        (N: any number of frames)
A_Start ==
    /\ pc = "AnimationCell"
    /\ \E n \in 1..MaxN :
           /\ N' = n
           /\ scale' = FracMul(scale, <<1, n>>)
    /\ i_anim' = 1
    /\ pc' = "A_Loop"
    /\ UNCHANGED <<notebook, mesh, lsetp1, done, geomvars, callvars, meshgen,
                   lset_approx, lset_p1, deformation, deformed, refinements,
                   reflevel, key, runs, lastread, solvars, extvars,
                   errors_curved, errors_uncurved, eoc_curved, eoc_uncurved>>

\* for i in range (1,N+1): deformation.vec[:] *= (i+1)/i
A_Step ==
    /\ pc = "A_Loop"
    /\ i_anim < N + 1
    /\ scale' = FracMul(scale, <<i_anim + 1, i_anim>>)
    /\ i_anim' = i_anim + 1
    /\ UNCHANGED <<notebook, mesh, lsetp1, done, geomvars, callvars, pc,
                   meshgen,
                   lset_approx, lset_p1, deformation, deformed, refinements,
                   reflevel, key, runs, lastread, solvars, extvars,
                   errors_curved, errors_uncurved, eoc_curved, eoc_uncurved,
                   N>>

\* range (1,N+1) is exhausted
A_Exit ==
    /\ pc = "A_Loop"
    /\ i_anim >= N + 1
    /\ pc' = "ConvergenceCell"
    /\ UNCHANGED <<notebook, mesh, lsetp1, done, geomvars, callvars, meshgen,
                   lset_approx, lset_p1, deformation, deformed, refinements,
                   reflevel, key, runs, lastread, solvars, extvars,
                   convvars>>

(* The convergence cell, statement by statement *)

\* mesh = Mesh (square.GenerateMesh(maxh=0.8, quad_dominated=False))
\* lsetmeshadap = LevelSetMeshAdaptation(mesh, order=order, ...)
\* lsetp1 = lsetmeshadap.lset_p1
L_Setup ==
    /\ pc = "ConvergenceCell"
    /\ meshgen' = [object |-> meshgen.object + 1, level |-> 0]
    /\ lset_p1' = NoGen
    /\ errors_curved' = NoLists /\ errors_uncurved' = NoLists
    /\ eoc_curved' = NoLists /\ eoc_uncurved' = NoLists
    /\ reflevel' = 0
    /\ key' = 0
    /\ pc' = "L_Head"
    /\ UNCHANGED <<notebook, mesh, lsetp1, done, geomvars, callvars,
                   lset_approx, deformation, deformed, refinements, runs,
                   lastread, solvars, extvars, N, i_anim, scale>>

\* for reflevel in range(refinements): if(reflevel > 0): mesh.Refine()
L_Head ==
    /\ pc = "L_Head"
    /\ reflevel < refinements
    /\ meshgen' = IF reflevel > 0 THEN Refine(meshgen) ELSE meshgen
    /\ key' = 1
    /\ pc' = KeyLoopStart
    /\ UNCHANGED <<notebook, mesh, lsetp1, done, geomvars, callvars, solvars, extvars, convvars,
                   lset_approx,
                   lset_p1, deformation, deformed, refinements, reflevel,
                   runs, lastread>>

\* deformation = lsetmeshadap.CalcDeformation(levelset)
L_CalcDeformation ==
    /\ pc = "L_CalcDeformation"
    /\ lset_p1' = meshgen
    /\ deformation' = meshgen
    /\ pc' = "L_IntegrateUncurved"
    /\ UNCHANGED <<notebook, mesh, lsetp1, done, geomvars, callvars, solvars, extvars, convvars, meshgen,
                   lset_approx, deformed, refinements, reflevel, key, runs,
                   lastread>>

\* integrals_uncurved = Integrate(levelset_domain = {"levelset" : lsetp1,..})
L_IntegrateUncurved ==
    /\ pc = "L_IntegrateUncurved"
    /\ lastread' = Read("Integrate", lset_p1)
    /\ pc' = "L_SetDeformation"
    /\ UNCHANGED <<notebook, mesh, lsetp1, done, geomvars, callvars, solvars, extvars, convvars, meshgen,
                   lset_approx, lset_p1, deformation, deformed, refinements,
                   reflevel, key, runs>>

\* mesh.SetDeformation(deformation)
L_SetDeformation ==
    /\ pc = "L_SetDeformation"
    /\ deformed' = TRUE
    /\ lastread' = Read("SetDeformation", deformation)
    /\ pc' = "L_IntegrateCurved"
    /\ UNCHANGED <<notebook, mesh, lsetp1, done, geomvars, callvars, solvars, extvars, convvars, meshgen,
                   lset_approx, lset_p1, deformation, refinements, reflevel,
                   key, runs>>

\* integrals_curved = Integrate(levelset_domain = {"levelset" : lsetp1, ..})
L_IntegrateCurved ==
    /\ pc = "L_IntegrateCurved"
    /\ lastread' = Read("Integrate", lset_p1)
    /\ pc' = "L_UnsetDeformation"
    /\ UNCHANGED <<notebook, mesh, lsetp1, done, geomvars, callvars, solvars, extvars, convvars, meshgen,
                   lset_approx, lset_p1, deformation, deformed, refinements,
                   reflevel, key, runs>>

\* mesh.UnsetDeformation()
L_UnsetDeformation ==
    /\ pc = "L_UnsetDeformation"
    /\ deformed' = UnsetDeformation(deformed)
    /\ pc' = "L_Append"
    /\ UNCHANGED <<notebook, mesh, lsetp1, done, geomvars, callvars, meshgen,
                   lset_approx, lset_p1, deformation, refinements, reflevel,
                   key, runs, lastread, solvars, extvars, convvars>>

\* errors_curved[key].append(abs(integrals_curved - referencevals[key]))
\* errors_uncurved[key].append(abs(integrals_uncurved - referencevals[key]))
\* then the next key or the end of the key loop; an entry is known by the
\* level it was computed on
L_Append ==
    /\ pc = "L_Append"
    /\ errors_curved' = [errors_curved EXCEPT ![key] = Append(@, reflevel)]
    /\ errors_uncurved' = [errors_uncurved EXCEPT ![key] = Append(@, reflevel)]
    /\ IF key < NumKeys
           THEN key' = key + 1 /\ pc' = KeyLoopStart
           ELSE key' = key /\ pc' = "L_RefineAtLevelSet"
    /\ UNCHANGED <<notebook, mesh, lsetp1, done, geomvars, callvars, meshgen,
                   lset_approx, lset_p1, deformation, deformed, refinements,
                   reflevel, runs, lastread, solvars, extvars,
                   eoc_curved, eoc_uncurved, N, i_anim, scale>>

\* RefineAtLevelSet(gf=lsetmeshadap.lset_p1)
L_RefineAtLevelSet ==
    /\ pc = "L_RefineAtLevelSet"
    /\ lastread' = Read("RefineAtLevelSet", lset_p1)
    /\ reflevel' = reflevel + 1
    /\ pc' = "L_Head"
    /\ UNCHANGED <<notebook, mesh, lsetp1, done, geomvars, callvars, solvars, extvars, convvars, meshgen,
                   lset_approx, lset_p1, deformation, deformed, refinements,
                   key, runs>>

\* the loop is over
L_Exit ==
    /\ pc = "L_Head"
    /\ reflevel = refinements
    /\ pc' = "Eoc"
    /\ UNCHANGED <<notebook, mesh, lsetp1, done, geomvars, callvars, meshgen,
                   lset_approx, lset_p1, deformation, deformed, refinements,
                   reflevel, key, runs, lastread, solvars, extvars,
                   convvars>>

\* eoc_curved[key] = [log(a/b)/log(2) for (a,b) in
\*     zip (errors_curved[key][0:-1],errors_curved[key][1:]) ], and uncurved;
\* an entry is known by the pair of errors it compares
Eoc ==
    /\ pc = "Eoc"
    /\ eoc_curved' = [k \in 1..NumKeys |-> EocList(errors_curved[k])]
    /\ eoc_uncurved' = [k \in 1..NumKeys |-> EocList(errors_uncurved[k])]
    /\ pc' = "Report"
    /\ UNCHANGED <<notebook, mesh, lsetp1, done, geomvars, callvars, meshgen,
                   lset_approx, lset_p1, deformation, deformed, refinements,
                   reflevel, key, runs, lastread, solvars, extvars,
                   errors_curved, errors_uncurved, N, i_anim, scale>>

\* print(sum(eoc_curved[IF][2:])/len(eoc_curved[IF][2:])), then NEG, POS:
\* a division by len(...) = 0 raises ZeroDivisionError
Report ==
    /\ pc = "Report"
    /\ pc' = IF \A k \in 1..NumKeys : Len(PySliceFrom(eoc_curved[k], 2)) # 0
                 THEN "done"
                 ELSE "ZeroDivisionError"
    /\ UNCHANGED <<notebook, mesh, lsetp1, done, geomvars, callvars, meshgen,
                   lset_approx, lset_p1, deformation, deformed, refinements,
                   reflevel, key, runs, lastread, solvars, extvars,
                   convvars>>

NextRefine ==
    \/ GenerateMesh
    \/ CellInterpolateToP1
    \/ CellIntegrate
    \/ R_RefineAtLevelSet
    \/ R_Refine
    \/ R_InterpolateToP1
    \/ R_Integrate
    \/ CellLevelSetMeshAdaptation
    \/ A_Start
    \/ A_Step
    \/ A_Exit
    \/ L_Setup
    \/ L_Head
    \/ L_CalcDeformation
    \/ L_IntegrateUncurved
    \/ L_SetDeformation
    \/ L_IntegrateCurved
    \/ L_UnsetDeformation
    \/ L_Append
    \/ L_RefineAtLevelSet
    \/ L_Exit
    \/ Eoc
    \/ Report

SpecRefine == InitRefine /\ [][NextRefine]_vars

-----------------------------------------------------------------------------
(* Element marking: properties *)

ElementsMarked == {"ba_NEG", "ba_POS", "ba_IF"} \subseteq done

StrictSignChange(e) ==
    /\ \E v \in ElVertices(mesh, e) : lsetp1[v] < 0
    /\ \E v \in ElVertices(mesh, e) : lsetp1[v] > 0

OneZeroRestNegative(e) ==
    \E v \in ElVertices(mesh, e) :
        /\ lsetp1[v] = 0
        /\ \A w \in ElVertices(mesh, e) \ {v} : lsetp1[w] < 0

\* C1: once the three element BitArrays are taken from the CutInfo, every
\* element of the mesh is in exactly one of NEG, POS and IF: the three sets
\* are pairwise disjoint and their union is the set of all elements, for
\* every mesh and all nodal values, zeros included.
C1_Partition ==
    ElementsMarked =>
        /\ ba_NEG \cup ba_POS \cup ba_IF = Elements(mesh)
        /\ ba_NEG \cap ba_POS = {}
        /\ ba_NEG \cap ba_IF = {}
        /\ ba_POS \cap ba_IF = {}

\* the marking has run on a mesh with an element whose nodal values are all
\* zero and an element with one zero among nonzero values
C1_Witness ==
    /\ ElementsMarked
    /\ \E e \in Elements(mesh) : \A v \in ElVertices(mesh, e) : lsetp1[v] = 0
    /\ \E e \in Elements(mesh) : OneZeroRestNegative(e)

-----------------------------------------------------------------------------
(* Facet marking: properties *)

FacetsMarked == "ba_facets" \in done

InteriorFacets(m) == {f \in Facets(m) : Cardinality(FacetElements(m, f)) = 2}

\* C3: with use_and = True a facet with two neighbouring elements is marked
\* iff one neighbour is in a and the other one is in b.
C3_AndCombinator ==
    (FacetsMarked /\ call.use_and) =>
        \A f \in InteriorFacets(mesh) :
            f \in ba_facets <=>
                \E L, R \in FacetElements(mesh, f) :
                    L # R /\ L \in call.a /\ R \in call.b

\* an interior facet marked only through (right in a, left in b), and an
\* interior facet with a neighbour in a that is not marked
C3_Witness ==
    /\ FacetsMarked /\ call.use_and
    /\ \E f \in InteriorFacets(mesh) :
          LET L == SetMin(FacetElements(mesh, f))
              R == SetMax(FacetElements(mesh, f))
          IN  /\ f \in ba_facets
              /\ R \in call.a /\ L \in call.b
              /\ ~(L \in call.a /\ R \in call.b)
    /\ \E f \in InteriorFacets(mesh) :
          /\ f \notin ba_facets
          /\ FacetElements(mesh, f) \cap call.a # {}

\* C4: with use_and = False a facet with two neighbouring elements is marked
\* iff one of its neighbours is in a or in b; with a = b = S and both
\* boundary values False every facet, boundary facets included, is marked
\* iff at least one of its neighbouring elements is in S.
C4_OrCombinator ==
    (FacetsMarked /\ ~call.use_and) =>
        /\ \A f \in InteriorFacets(mesh) :
              f \in ba_facets <=>
                  \E e \in FacetElements(mesh, f) :
                      e \in call.a \/ e \in call.b
        /\ (call.a = call.b /\ ~call.bnd_val_a /\ ~call.bnd_val_b) =>
              \A f \in Facets(mesh) :
                  f \in ba_facets <=> FacetElements(mesh, f) \cap call.a # {}

\* the call of Example 2 on a set S: an interior facet with exactly one
\* neighbour in S is marked, a boundary facet is marked, a facet is not
C4_Witness ==
    /\ FacetsMarked /\ ~call.use_and
    /\ call.a = call.b /\ ~call.bnd_val_a /\ ~call.bnd_val_b
    /\ \E f \in InteriorFacets(mesh) :
          f \in ba_facets /\ Cardinality(FacetElements(mesh, f) \cap call.a) = 1
    /\ \E f \in BoundaryFacets(mesh) : f \in ba_facets
    /\ \E f \in Facets(mesh) : f \notin ba_facets

\* C5: at a boundary facet the missing neighbour counts as in a iff
\* bnd_val_a and as in b iff bnd_val_b, each on its own; with use_and = True
\* and both values False no boundary facet is marked.
C5_BoundaryValues ==
    FacetsMarked =>
        /\ \A f \in BoundaryFacets(mesh) :
              LET L == CHOOSE e \in FacetElements(mesh, f) : TRUE
              IN  f \in ba_facets <=>
                    IF call.use_and
                    THEN \/ (L \in call.a /\ call.bnd_val_b)
                         \/ (call.bnd_val_a /\ L \in call.b)
                    ELSE \/ (L \in call.a \/ call.bnd_val_b)
                         \/ (call.bnd_val_a \/ L \in call.b)
        /\ (call.use_and /\ ~call.bnd_val_a /\ ~call.bnd_val_b) =>
              ba_facets \cap BoundaryFacets(mesh) = {}

\* the two boundary values differ, one boundary facet is marked and one is
\* not
C5_Witness ==
    /\ FacetsMarked /\ call.use_and
    /\ call.bnd_val_a # call.bnd_val_b
    /\ \E f \in BoundaryFacets(mesh) : f \in ba_facets
    /\ \E f \in BoundaryFacets(mesh) :
          f \notin ba_facets /\ FacetElements(mesh, f) \subseteq call.a

-----------------------------------------------------------------------------
(* Dof marking: properties *)

CallSpace == H1(mesh, call.order, call.dirichlet)

\* C6: GetDofsOfElements(space, S) marks a dof iff at least one element of
\* the dof's support is in S.
C6_DofsOfElements ==
    "ba_dofs" \in done =>
        LET sp == CallSpace
        IN  /\ Len(ba_dofs) = ndof(sp)
            /\ \A i \in 1..ndof(sp) :
                  ba_dofs[i] <=> \E e \in DofSupport(sp, i) : e \in call.a

\* an order 2 space: a marked dof with a supporting element outside S, and
\* an unmarked dof
C6_Witness ==
    /\ "ba_dofs" \in done
    /\ call.order = 2
    /\ LET sp == CallSpace
       IN  /\ \E i \in 1..ndof(sp) :
                 ba_dofs[i] /\ ~(DofSupport(sp, i) \subseteq call.a)
           /\ \E i \in 1..ndof(sp) : ~ba_dofs[i]

\* C7: the relevant dofs of VhG = [Vh, Vh] are the mask of Vh against hasneg
\* followed by the mask of Vh against haspos: dof i of the first component
\* is relevant iff it has a supporting element in hasneg, dof j of the
\* second iff it has a supporting element in haspos.
C7_CompoundMask ==
    "freedofs" \in done =>
        LET sp == Vh
            nd == ndof(sp)
        IN  /\ Len(relevantdofs) = 2 * nd
            /\ \A i \in 1..nd :
                  /\ relevantdofs[i] <=>
                        \E e \in DofSupport(sp, i) : e \in hasneg
                  /\ relevantdofs[nd + i] <=>
                        \E e \in DofSupport(sp, i) : e \in haspos

\* the two element sets differ and so do the two halves of the mask
C7_Witness ==
    /\ "freedofs" \in done
    /\ hasneg # haspos
    /\ LET nd == ndof(Vh)
       IN  /\ \E i \in 1..nd : relevantdofs[i] /\ ~relevantdofs[nd + i]
           /\ \E i \in 1..nd : ~relevantdofs[i] /\ relevantdofs[nd + i]

\* C8: after freedofs &= mask a dof is free iff it is not constrained by a
\* Dirichlet condition and it is in the mask, for the compound space of the
\* unfitted FEM notebook and for the fictitious domain marking.
C8_FreeDofs ==
    /\ "freedofs" \in done =>
          LET sp == Vh
              nd == ndof(sp)
          IN  /\ Len(freedofs) = 2 * nd
              /\ \A i \in 1..nd :
                    /\ freedofs[i] <=>
                          ~IsDirichletDof(sp, i) /\ relevantdofs[i]
                    /\ freedofs[nd + i] <=>
                          ~IsDirichletDof(sp, i) /\ relevantdofs[nd + i]
    /\ "freedofs_fd" \in done =>
          LET sp == H1(mesh, 1, FALSE)
              mask == GetDofsOfElements(sp, ba_hasneg)
          IN  /\ Len(freedofs_fd) = ndof(sp)
              /\ \A i \in 1..ndof(sp) :
                    freedofs_fd[i] <=> ~IsDirichletDof(sp, i) /\ mask[i]

\* the compound space has a Dirichlet dof inside the mask, an unconstrained
\* dof outside the mask and a free dof
C8_Witness ==
    /\ "freedofs" \in done
    /\ LET sp == Vh
           nd == ndof(sp)
       IN  /\ \E i \in 1..nd :
                 IsDirichletDof(sp, i) /\ relevantdofs[i] /\ ~freedofs[i]
           /\ \E i \in 1..nd :
                 ~IsDirichletDof(sp, i) /\ ~relevantdofs[i] /\ ~freedofs[i]
           /\ \E i \in 1..(2 * nd) : freedofs[i]

-----------------------------------------------------------------------------
(* Refinement sequences: properties *)

\* C9: every Integrate, RefineAtLevelSet and SetDeformation reads a field
\* that was computed on the mesh as it is at the time of the read: after
\* each mesh.Refine() the level set (and the deformation) is recomputed
\* before it is used, in the refine cell run any number of times and in
\* every level of the convergence loop.
C9_RecomputedBeforeUse ==
    lastread.op # "none" => lastread.field = lastread.mesh

\* the refine cell has run twice and the convergence loop integrates on its
\* mesh after two refinements
C9_Witness ==
    /\ runs >= 2
    /\ lastread.op = "Integrate"
    /\ lastread.mesh.object = 2
    /\ lastread.mesh.level >= 2
    /\ pc = "L_UnsetDeformation"

-----------------------------------------------------------------------------
(* Measure of the sub-domains: properties *)

Integrated == {"NEG", "POS"} \subseteq done

AllZero(e) == \A v \in ElVertices(mesh, e) : lsetp1[v] = 0

\* the sum of the NEG and the POS reference value is the area of the square
ReferenceValsAddUp ==
    LET total == [rat |-> referencevals["NEG"].rat + referencevals["POS"].rat,
                  pi  |-> referencevals["NEG"].pi + referencevals["POS"].pi]
    IN  total.pi = 0 /\ FracEq(<<total.rat, 1>>, SquareArea)

-----------------------------------------------------------------------------
(* Element marking by nodal values *)

-----------------------------------------------------------------------------
(* Example 1: the outer boundary of the NEG domain *)

\* the elements next to facet f on which the level set is negative everywhere
NegNeighbours(f) ==
    {e \in FacetElements(mesh, f) :
        \A v \in ElVertices(mesh, e) : lsetp1[v] < 0}

-----------------------------------------------------------------------------
(* The combined solution *)

\* C14: uh takes component 0 (u_-) wherever the P1 level set is < 0 and
\* component 1 (u_+) wherever it is >= 0, the points where it is exactly 0
\* included, and the sampled values x_vals take the same component as uh at
\* every sample point.
C14_SameComponent ==
    {"uh", "x_vals"} \subseteq done =>
        \A v \in Vertices(mesh) :
            /\ uh[v] = (IF lsetp1[v] < 0 THEN 0 ELSE 1)
            /\ x_vals[v] = uh[v]

-----------------------------------------------------------------------------
(* The convergence loop: deformation, lists, report *)

AfterLoop == pc \in {"Eoc", "Report", "done", "ZeroDivisionError"}

\* C16: in the convergence loop mesh.Refine() (at the head of a level) and
\* RefineAtLevelSet run with no deformation set, the uncurved Integrate runs
\* with no deformation set, the curved Integrate runs with the deformation
\* set, and no deformation is set once the loop is over.
C16_DeformationBracketed ==
    /\ pc \in {"L_Head", "L_RefineAtLevelSet", "L_IntegrateUncurved"}
           => ~deformed
    /\ pc = "L_IntegrateCurved" => deformed
    /\ AfterLoop => ~deformed

\* the loop is over after two levels or more, each with three pairs of
\* SetDeformation / UnsetDeformation
C16_Witness ==
    /\ pc = "Eoc"
    /\ refinements >= 2
    /\ lastread.op = "RefineAtLevelSet"
    /\ \A k \in 1..NumKeys : Len(errors_curved[k]) = refinements

\* C19: for every refinements >= 1 the report completes without an error:
\* each list of errors has refinements entries, each list of convergence
\* orders has refinements - 1 entries, and the average is taken over a
\* non-empty list eoc[2:], so no division by zero occurs.
C19_ReportCompletes ==
    /\ pc # "ZeroDivisionError"
    /\ pc \in {"Report", "done"} =>
           \A k \in 1..NumKeys :
               /\ Len(errors_curved[k]) = refinements
               /\ Len(errors_uncurved[k]) = refinements
               /\ Len(eoc_curved[k]) = refinements - 1
               /\ Len(eoc_uncurved[k]) = refinements - 1
               /\ Len(PySliceFrom(eoc_curved[k], 2)) > 0

-----------------------------------------------------------------------------
(* Extension by direct neighbours: properties *)

\* the elements that share a facet (two vertices) with an element of S
FacetNeighbours(S) ==
    {e \in Elements(mesh) :
        \E e2 \in S : Cardinality(ElVertices(mesh, e)
                                      \cap ElVertices(mesh, e2)) = 2}

RECURSIVE Within(_, _)
\* the elements reached from S over at most k facets
Within(S, k) ==
    IF k = 0 THEN S
    ELSE LET W == Within(S, k - 1) IN W \cup FacetNeighbours(W)

\* the union of the facet-connected components that meet S
Components(S) == Within(S, Cardinality(Elements(mesh)))

\* C17: one extension step returns S together with every element sharing a
\* facet with an element of S; so S stays in the result, the result of k
\* steps is the set of elements within k facets of S, it never shrinks from
\* one step to the next, and after as many steps as the mesh has elements it
\* is a fixed point: the union of the facet-connected components meeting S.
C17_ExtendsByNeighbours ==
    /\ [](steps >= 1 =>
             /\ call.a \subseteq ba_extended_NEG
             /\ Extend(mesh, call.a) = call.a \cup FacetNeighbours(call.a)
             /\ ba_extended_NEG = Within(call.a, steps)
             /\ steps >= Cardinality(Elements(mesh)) =>
                    /\ ba_extended_NEG = Components(call.a)
                    /\ Extend(mesh, ba_extended_NEG) = ba_extended_NEG)
    /\ [][steps >= 1 => ba_extended_NEG \subseteq ba_extended_NEG']_vars

\* a set S has been extended over more than two steps until it filled the
\* mesh and stopped growing
C17_Witness ==
    /\ steps >= 3
    /\ call.a # {}
    /\ Within(call.a, 2) # Elements(mesh)
    /\ ba_extended_NEG = Elements(mesh)
    /\ Extend(mesh, ba_extended_NEG) = ba_extended_NEG

-----------------------------------------------------------------------------
(* Restricted assembly: properties *)

====
